---- MODULE Spec2Model ----
(***************************************************************************)
(* NotifyBuddy: the reminder store (shared/storage.js), the alarm          *)
(* utilities (shared/alarms.js), the popup, the dashboard (options.js)     *)
(* and the background service worker, as one state machine.                *)
(*                                                                         *)
(* JavaScript strings that the code takes apart (ids, alarm names, texts)  *)
(* are sequences of one-character strings, so that substring, lastIndexOf, *)
(* trim, parseInt and number formatting are computed as the code computes  *)
(* them.  Times are epoch milliseconds.                                    *)
(*                                                                         *)
(* A handler of the popup or of the dashboard is one step.  The onAlarm    *)
(* handler of the service worker is three: up to the notification, the     *)
(* read of its updateReminderStatus, and the write of what it read.        *)
(***************************************************************************)
EXTENDS Integers, Sequences, FiniteSets, TLC

VARIABLES
    store,                  \* chrome.storage.local["reminders"]: sequence of records
    alarms,                 \* chrome.alarms: set of [name, when]
    now,                    \* Date.now()
    reminders,              \* options.js: let reminders (in-memory list)
    editingId,              \* options.js: let editingId ("" seq when null)
    lastDismissedReminder,  \* options.js: remembered record (<<>> when null, else <<r>>)
    undoTimeout,            \* options.js: deadline of the pending undo timer, NoTimer when none
    undoButton,             \* the toast currently shows the Undo button
    changed,                \* a storage.onChanged event is pending for the dashboard
    randomDraws,            \* number of Math.random() draws made so far
    firing,                 \* service worker: the onAlarm handler run in flight, its position
                            \* (after showNotification, after the read of updateReminderStatus);
                            \* under SpecRuns one such run per listener invocation
    last,                   \* history: the handler that acted last (one rejected at its input
                            \* checks, or not confirmed, leaves no trace), its inputs and the
                            \* state before it; "local" for a step that writes neither the
                            \* store nor the alarms
    probe                   \* input/output of a pure function call (pure-function
                            \* specifications); under SpecRuns the records displayed

vars == <<store, alarms, now, reminders, editingId, lastDismissedReminder,
          undoTimeout, undoButton, changed, randomDraws, firing, last, probe>>

----------------------------------------------------------------------------
(* Bounds and program constants *)

MaxMinute == 2          \* dates offered by the datetime inputs: minutes 1..MaxMinute
MaxCreates == 2         \* reminders created in a run
MaxOverlap == 1         \* steps of other contexts during one onAlarm handler run
MaxOverlapCreates == 1  \* reminders created so far when a step comes before the run's read
MaxLateEditCreates == 1 \* reminders created so far when the clock passes the time picked before an edit's save
EarlyMs == 2000         \* the clock is observed EarlyMs before each minute and on the minute

MsPerMinute == 60000    \* datetime-local values have minute resolution
ToleranceMs == 1000     \* findReminder: Math.abs(rTime - alarmTime) < 1000
UndoWindowMs == 5000    \* handleDismiss: setTimeout(..., 5000)
PrefixLen == 8          \* parseAlarmName: lastDashIndex <= 8, substring(8, ...)
NoTimer == 0

----------------------------------------------------------------------------
(* JavaScript string primitives over sequences of characters *)

Digits == <<"0", "1", "2", "3", "4", "5", "6", "7", "8", "9">>

DigitVal(c) == (CHOOSE i \in 1..10 : Digits[i] = c) - 1

IsDigit(c) == \E i \in 1..10 : Digits[i] = c

RECURSIVE NumToStr(_)
\* String(n) / template-literal formatting of a non-negative integer
NumToStr(n) ==
    IF n < 10 THEN <<Digits[n + 1]>>
    ELSE NumToStr(n \div 10) \o <<Digits[(n % 10) + 1]>>

\* s.startsWith(p)
StartsWith(s, p) == Len(s) >= Len(p) /\ SubSeq(s, 1, Len(p)) = p

\* s.lastIndexOf(c), 0-based, -1 when absent
LastIndexOf(s, c) ==
    IF \E i \in 1..Len(s) : s[i] = c
    THEN (CHOOSE i \in 1..Len(s) : s[i] = c /\ \A j \in (i + 1)..Len(s) : s[j] # c) - 1
    ELSE -1

Clamp(i, n) == IF i < 0 THEN 0 ELSE IF i > n THEN n ELSE i

\* s.substring(a, b), 0-based, end exclusive; arguments are clamped and swapped
Substring(s, a, b) ==
    LET x == Clamp(a, Len(s))
        y == Clamp(b, Len(s))
        lo == IF x <= y THEN x ELSE y
        hi == IF x <= y THEN y ELSE x
    IN  SubSeq(s, lo + 1, hi)

\* s.substring(a)
SubstringFrom(s, a) == Substring(s, a, Len(s))

IsSpace(c) == c = " "

RECURSIVE TrimLeft(_)
TrimLeft(s) == IF s # <<>> /\ IsSpace(Head(s)) THEN TrimLeft(Tail(s)) ELSE s

RECURSIVE TrimRight(_)
TrimRight(s) ==
    IF s # <<>> /\ IsSpace(s[Len(s)]) THEN TrimRight(SubSeq(s, 1, Len(s) - 1)) ELSE s

\* s.trim()
Trim(s) == TrimRight(TrimLeft(s))

RECURSIVE DigitPrefixVal(_, _)
\* value of the longest prefix of digits of s, acc being the value read so far
DigitPrefixVal(s, acc) ==
    IF s # <<>> /\ IsDigit(Head(s))
    THEN DigitPrefixVal(Tail(s), acc * 10 + DigitVal(Head(s)))
    ELSE acc

\* parseInt(s, 10): leading whitespace skipped, optional sign, then the digits
\* up to the first other character; NaN when there is no digit
ParseInt(s) ==
    LET t == TrimLeft(s)
        neg == t # <<>> /\ Head(t) = "-"
        u == IF t # <<>> /\ Head(t) \in {"-", "+"} THEN Tail(t) ELSE t
    IN  IF u = <<>> \/ ~IsDigit(Head(u))
        THEN [nan |-> TRUE, val |-> 0]
        ELSE [nan |-> FALSE,
              val |-> IF neg THEN 0 - DigitPrefixVal(u, 0) ELSE DigitPrefixVal(u, 0)]

ReminderPrefix == <<"r", "e", "m", "i", "n", "d", "e", "r", "-">>

----------------------------------------------------------------------------
(* shared/alarms.js *)

\* createAlarmName(reminder): `reminder-${reminder.id}-${reminder.scheduledTime}`
createAlarmName(id, t) == ReminderPrefix \o id \o <<"-">> \o NumToStr(t)

\* chrome.alarms.create(name, {when}): an alarm of that name is replaced
AlarmsCreate(as, name, when) ==
    {a \in as : a.name # name} \cup {[name |-> name, when |-> when]}

\* chrome.alarms.clear(name)
AlarmsClear(as, name) == {a \in as : a.name # name}

\* scheduleReminder with the alarm set for the time of the call instead of
\* the reminder's scheduledTime
scheduleReminder_WhenNow(as, r, t) ==
    IF r.id = <<>> \/ r.scheduledTime = 0 \/ r.scheduledTime <= t
    THEN [ok |-> FALSE, alarms |-> as]
    ELSE [ok |-> TRUE,
          alarms |-> AlarmsCreate(as, createAlarmName(r.id, r.scheduledTime), t)]

\* scheduleReminder without the comparison of scheduledTime with Date.now()
scheduleReminder_NoPastCheck(as, r, t) ==
    IF r.id = <<>> \/ r.scheduledTime = 0
    THEN [ok |-> FALSE, alarms |-> as]
    ELSE [ok |-> TRUE,
          alarms |-> AlarmsCreate(as, createAlarmName(r.id, r.scheduledTime),
                                  r.scheduledTime)]

\* scheduleReminder(reminder) at time t: [ok, alarms]; ok = FALSE when it throws
scheduleReminder(as, r, t) ==
    IF r.id = <<>> \/ r.scheduledTime = 0
    THEN [ok |-> FALSE, alarms |-> as]
    ELSE IF r.scheduledTime <= t
    THEN [ok |-> FALSE, alarms |-> as]
    ELSE [ok |-> TRUE,
          alarms |-> AlarmsCreate(as, createAlarmName(r.id, r.scheduledTime),
                                  r.scheduledTime)]

\* cancelReminderById clearing the alarm named by the id alone
cancelReminderById_IdOnly(as, id, t) ==
    IF id = <<>> \/ t = 0 THEN as
    ELSE AlarmsClear(as, ReminderPrefix \o id)

\* cancelReminderById clearing every alarm of the id, whatever its time
cancelReminderById_AllOfId(as, id, t) ==
    IF id = <<>> \/ t = 0 THEN as
    ELSE {a \in as : ~StartsWith(a.name, ReminderPrefix \o id \o <<"-">>)}

\* cancelReminderById(id, scheduledTime)
cancelReminderById(as, id, t) ==
    IF id = <<>> \/ t = 0 THEN as
    ELSE AlarmsClear(as, createAlarmName(id, t))

----------------------------------------------------------------------------
(* shared/storage.js *)

ValidStatuses == {"active", "completed", "dismissed"}

\* reminders.findIndex(r => String(r.id) === String(id)), 1-based, 0 when absent
FindIndexById(rs, id) ==
    IF \E i \in 1..Len(rs) : rs[i].id = id
    THEN CHOOSE i \in 1..Len(rs) : rs[i].id = id /\ \A j \in 1..(i - 1) : rs[j].id # id
    ELSE 0

\* getReminder(id): <<>> for null, <<r>> for the record found
getReminder(st, id) ==
    IF id = <<>> \/ FindIndexById(st, id) = 0 THEN <<>>
    ELSE <<st[FindIndexById(st, id)]>>

\* normalizeReminder(reminder) at time t
normalizeReminder(r, t) ==
    [r EXCEPT !.createdAt = IF r.createdAt = 0 THEN t ELSE r.createdAt,
              !.status = IF r.status = "" THEN "active" ELSE r.status]

\* validateReminder(reminder) at time t: TRUE when it does not throw
validateReminder(r, t) ==
    /\ r.id # <<>>
    /\ Trim(r.text) # <<>>
    /\ r.scheduledTime # 0
    /\ r.scheduledTime > t
    /\ (r.status = "" \/ r.status \in ValidStatuses)

\* the upsert of saveReminder always pushing, never replacing
Upsert_Push(st, r) == Append(st, r)

\* the upsert of saveReminder (lines 80-87)
Upsert(st, r) ==
    LET i == FindIndexById(st, r.id)
    IN  IF i > 0 THEN [st EXCEPT ![i] = r] ELSE Append(st, r)

\* saveReminder(reminder) at time t: [ok, store]; ok = FALSE when it throws
saveReminder(st, r, t) ==
    IF ~validateReminder(r, t) THEN [ok |-> FALSE, store |-> st]
    ELSE [ok |-> TRUE, store |-> Upsert(st, normalizeReminder(r, t))]

\* reminders.filter(r => String(r.id) !== String(id))
RECURSIVE FilterOutId(_, _)
FilterOutId(st, id) ==
    IF st = <<>> THEN <<>>
    ELSE IF Head(st).id = id THEN FilterOutId(Tail(st), id)
    ELSE <<Head(st)>> \o FilterOutId(Tail(st), id)

\* deleteReminder(id)
deleteReminder(st, id) == IF id = <<>> THEN st ELSE FilterOutId(st, id)

\* updateReminderStatus(id, status) of storage.js at time t: [ok, store]
updateReminderStatus(st, id, status, t) ==
    IF id = <<>> \/ status = "" THEN [ok |-> TRUE, store |-> st]
    ELSE IF status \notin ValidStatuses THEN [ok |-> FALSE, store |-> st]
    ELSE IF getReminder(st, id) = <<>> THEN [ok |-> TRUE, store |-> st]
    ELSE saveReminder(st, [getReminder(st, id)[1] EXCEPT !.status = status], t)

----------------------------------------------------------------------------
(* shared/storage.js on arbitrary JavaScript values *)

\* The handlers above pass saveReminder records whose fields have the types
\* the forms produce.  saveReminder itself takes any value: a value is
\* [type, num, str], an object carries the reminder's properties, a property
\* that is absent being Undefined.
Undefined == [type |-> "undefined", num |-> 0, str |-> <<>>]
Null == [type |-> "null", num |-> 0, str |-> <<>>]
NumberValue(n) == [type |-> "number", num |-> n, str |-> <<>>]
StringValue(str) == [type |-> "string", num |-> 0, str |-> str]

\* the truthiness test of !v, v && ..., v || ...
Truthy(v) ==
    CASE v.type = "number" -> v.num # 0
      [] v.type = "string" -> v.str # <<>>
      [] v.type = "object" -> TRUE
      [] OTHER -> FALSE

\* Number(v): [nan, val].  A string converts when, trimmed, it is empty or
\* made of decimal digits (the inputs drawn hold no sign, fraction or exponent)
ToNumber(v) ==
    CASE v.type = "number" -> [nan |-> FALSE, val |-> v.num]
      [] v.type = "null" -> [nan |-> FALSE, val |-> 0]
      [] v.type = "string" ->
            IF Trim(v.str) = <<>> THEN [nan |-> FALSE, val |-> 0]
            ELSE IF \A i \in 1..Len(Trim(v.str)) : IsDigit(Trim(v.str)[i])
            THEN [nan |-> FALSE, val |-> DigitPrefixVal(Trim(v.str), 0)]
            ELSE [nan |-> TRUE, val |-> 0]
      [] OTHER -> [nan |-> TRUE, val |-> 0]

\* Number(v) || d
NumberOr(v, d) == IF ToNumber(v).nan \/ ToNumber(v).val = 0 THEN d ELSE ToNumber(v).val

\* String(v) of a string or a non-negative integer
StringOf(v) == IF v.type = "number" THEN NumToStr(v.num) ELSE v.str

ActiveText == <<"a", "c", "t", "i", "v", "e">>
CompletedText == <<"c", "o", "m", "p", "l", "e", "t", "e", "d">>
DismissedText == <<"d", "i", "s", "m", "i", "s", "s", "e", "d">>

\* const validStatuses = ["active", "completed", "dismissed"]
ValidStatusTexts == {ActiveText, CompletedText, DismissedText}

\* validateReminder letting any scheduledTime that converts to a number pass
validateReminderValue_AnyTime(x, t) ==
    /\ Truthy(x) /\ x.type = "object"
    /\ Truthy(x.id) /\ x.id.type = "string"
    /\ Truthy(x.text) /\ x.text.type = "string" /\ Trim(x.text.str) # <<>>
    /\ ~ToNumber(x.scheduledTime).nan /\ ToNumber(x.scheduledTime).val # 0
    /\ \/ ~Truthy(x.status)
       \/ (x.status.type = "string" /\ x.status.str \in ValidStatusTexts)

\* validateReminder(reminder) at time t: TRUE when it does not throw
validateReminderValue(x, t) ==
    /\ Truthy(x) /\ x.type = "object"
    /\ Truthy(x.id) /\ x.id.type = "string"
    /\ Truthy(x.text) /\ x.text.type = "string" /\ Trim(x.text.str) # <<>>
    /\ ~ToNumber(x.scheduledTime).nan /\ ToNumber(x.scheduledTime).val # 0
    /\ ToNumber(x.scheduledTime).val > t
    /\ \/ ~Truthy(x.status)
       \/ (x.status.type = "string" /\ x.status.str \in ValidStatusTexts)

\* normalizeReminder leaving scheduledTime as it was given
normalizeReminderValue_KeepsTime(x, t) ==
    [x EXCEPT !.createdAt = NumberValue(NumberOr(x.createdAt, t)),
              !.status = IF Truthy(x.status) THEN x.status ELSE StringValue(ActiveText)]

\* normalizeReminder(reminder) at time t
normalizeReminderValue(x, t) ==
    [x EXCEPT !.scheduledTime = NumberValue(NumberOr(x.scheduledTime, 0)),
              !.createdAt = NumberValue(NumberOr(x.createdAt, t)),
              !.status = IF Truthy(x.status) THEN x.status ELSE StringValue(ActiveText)]

\* reminders.findIndex(r => String(r.id) === String(id)), 1-based, 0 when absent
FindIndexByIdValue(rs, id) ==
    IF \E i \in 1..Len(rs) : StringOf(rs[i].id) = StringOf(id)
    THEN CHOOSE i \in 1..Len(rs) :
            /\ StringOf(rs[i].id) = StringOf(id)
            /\ \A j \in 1..(i - 1) : StringOf(rs[j].id) # StringOf(id)
    ELSE 0

\* saveReminder(reminder) at time t: [ok, store]; ok = FALSE when it throws
saveReminderValue(st, x, t) ==
    IF ~validateReminderValue(x, t) THEN [ok |-> FALSE, store |-> st]
    ELSE LET normalizedReminder == normalizeReminderValue(x, t)
             existingIndex == FindIndexByIdValue(st, normalizedReminder.id)
         IN  [ok |-> TRUE,
              store |-> IF existingIndex > 0
                        THEN [st EXCEPT ![existingIndex] = normalizedReminder]
                        ELSE Append(st, normalizedReminder)]

\* getReminder(id): <<>> for null, <<r>> for the record found
getReminderValue(st, id) ==
    IF ~Truthy(id) \/ FindIndexByIdValue(st, id) = 0 THEN <<>>
    ELSE <<st[FindIndexByIdValue(st, id)]>>

----------------------------------------------------------------------------
(* background/service-worker.js *)

\* updateReminderStatus of the service worker pushing the updated record
\* instead of replacing it
bgUpdateReminderStatus_Push(st, id, status) ==
    LET i == FindIndexById(st, id)
    IN  IF i > 0 THEN Append(st, [st[i] EXCEPT !.status = status]) ELSE st

\* updateReminderStatus(id, status) of the service worker: never throws
bgUpdateReminderStatus(st, id, status) ==
    LET i == FindIndexById(st, id)
    IN  IF i > 0 THEN [st EXCEPT ![i].status = status] ELSE st

\* parseAlarmName(alarmName): [valid, reminderId, scheduledTime]; valid = FALSE for null
Invalid == [valid |-> FALSE, reminderId |-> <<>>, scheduledTime |-> 0]

parseAlarmName(name) ==
    IF name = <<>> \/ ~StartsWith(name, ReminderPrefix) THEN Invalid
    ELSE LET lastDashIndex == LastIndexOf(name, "-")
             timeString == SubstringFrom(name, lastDashIndex + 1)
             scheduledTime == ParseInt(timeString)
             reminderId == Trim(Substring(name, PrefixLen, lastDashIndex))
         IN  IF lastDashIndex = -1 \/ lastDashIndex <= PrefixLen THEN Invalid
             ELSE IF scheduledTime.nan \/ scheduledTime.val <= 0 THEN Invalid
             ELSE IF reminderId = <<>> THEN Invalid
             ELSE [valid |-> TRUE, reminderId |-> reminderId,
                   scheduledTime |-> scheduledTime.val]

Abs(x) == IF x < 0 THEN 0 - x ELSE x

\* the fallback predicate of findReminder (lines 86-90)
WithinTolerance(r, t) == Abs(r.scheduledTime - t) < ToleranceMs

\* findReminder(reminders, reminderId, scheduledTime): index found, 0 for undefined
findReminder(rs, reminderId, t) ==
    IF FindIndexById(rs, reminderId) > 0 THEN FindIndexById(rs, reminderId)
    ELSE IF \E i \in 1..Len(rs) : WithinTolerance(rs[i], t)
    THEN CHOOSE i \in 1..Len(rs) :
            WithinTolerance(rs[i], t) /\ \A j \in 1..(i - 1) : ~WithinTolerance(rs[j], t)
    ELSE 0

\* showNotification without the fallback display of its catch block
showNotification_NoFallback(r, outcome) ==
    IF outcome = "denied" THEN <<>>
    ELSE <<[id |-> ReminderPrefix \o r.id, ok |-> outcome = "rich"]>>

\* showNotification(reminder): the display attempts made, in order, outcome
\* being what getPermissionLevel and the two chrome.notifications.create do
showNotification(r, outcome) ==
    LET notificationId == ReminderPrefix \o r.id
        rich == [id |-> notificationId, ok |-> outcome = "rich"]
        fallback == [id |-> <<"f", "a", "l", "l", "b", "a", "c", "k", "-">> \o notificationId,
                     ok |-> outcome = "fallback"]
    IN  IF outcome = "denied" THEN <<>>
        ELSE IF outcome = "rich" THEN <<rich>>
        ELSE <<rich, fallback>>

----------------------------------------------------------------------------
(* shared/utils.js and the inputs of the forms *)

\* generateReminderId without the random suffix
generateReminderId_NoRandom(t, rand) == ReminderPrefix \o NumToStr(t)

\* generateReminderId() at time t, rand being Math.random().toString(36).substring(2, 11)
generateReminderId(t, rand) == ReminderPrefix \o NumToStr(t) \o <<"-">> \o rand

\* Math.random().toString(36).substring(2, 11) of the k-th draw: base-36
\* characters, a different string at every draw
RandomDraw(k) == <<"x">> \o NumToStr(k)

\* what the user types into the text field of a create form and of an edit form
CreateTexts == {<<" ", "a">>, <<" ">>}
EditTexts == {<<" ", "b", " ">>, <<" ">>}

\* what the user picks in a datetime-local field: 0 for the empty field, else
\* the minute picked
DateTimeInputs == 0..MaxMinute

\* new Date(dateTime).getTime()
SelectedTime(dt) == dt * MsPerMinute

\* validateFutureDateTime(dateTimeString) at time t: the valid flag
validateFutureDateTime(dt, t) == dt # 0 /\ SelectedTime(dt) > t

\* createReminderObject(text, scheduledTime) of popup.js, and the literal of
\* handleAddReminder, with the id already generated
createReminderObject(id, text, scheduledTime, t) ==
    [id |-> id, text |-> Trim(text), scheduledTime |-> scheduledTime,
     createdAt |-> t, status |-> "active",
     alarmName |-> createAlarmName(id, scheduledTime)]

----------------------------------------------------------------------------
(* State *)

\* The history variable last and the probe are instrumentation: they record
\* what a handler did, and the program reads neither.
NoParse == Invalid

NoLast ==
    [op |-> "init", ok |-> FALSE, id |-> <<>>, text |-> <<>>, t |-> 0,
     store |-> <<>>, alarms |-> {}, name |-> <<>>, parsed |-> NoParse,
     found |-> 0, attempts |-> <<>>, read |-> <<>>, remembered |-> <<>>,
     windowOpen |-> FALSE, copy |-> <<>>]

Idle(op) == [NoLast EXCEPT !.op = op]

\* the state before a handler runs, as the history keeps it
Before(op) ==
    [NoLast EXCEPT !.op = op, !.store = store, !.alarms = alarms,
                   !.remembered = lastDismissedReminder,
                   !.windowOpen = (undoTimeout # NoTimer /\ now < undoTimeout)]

\* no onAlarm handler run is in flight
NoFiring == [stage |-> "idle", id |-> <<>>, read |-> <<>>, overlap |-> 0]

NoProbe ==
    [phase |-> "none", id |-> <<>>, t |-> 0, name |-> <<>>, result |-> NoParse,
     x |-> Undefined, st |-> <<>>, saved |-> [ok |-> FALSE, store |-> <<>>],
     got |-> <<>>, as |-> {}, out |-> [ok |-> FALSE, alarms |-> {}],
     shown |-> <<>>, op |-> "", status |-> "", reads |-> <<>>,
     value |-> [array |-> FALSE, items |-> <<>>],
     written |-> [array |-> FALSE, items |-> <<>>]]

Init ==
    /\ store = <<>>
    /\ alarms = {}
    /\ now = MsPerMinute - EarlyMs
    /\ reminders = <<>>
    /\ editingId = <<>>
    /\ lastDismissedReminder = <<>>
    /\ undoTimeout = NoTimer
    /\ undoButton = FALSE
    /\ changed = FALSE
    /\ randomDraws = 0
    /\ firing = NoFiring
    /\ last = NoLast
    /\ probe = NoProbe

\* the undo timer's deadline has passed and its callback has not run yet; the
\* event loop runs it before any later click
TimerDue == undoTimeout # NoTimer /\ now >= undoTimeout

\* the instants at which the clock is observed
NextInstant(n) ==
    IF n % MsPerMinute = 0 THEN n + MsPerMinute - EarlyMs ELSE n + EarlyMs

Tick ==
    /\ NextInstant(now) <= MaxMinute * MsPerMinute
    /\ now' = NextInstant(now)
    /\ last' = Idle("local")
    /\ UNCHANGED <<store, alarms, reminders, editingId, lastDismissedReminder,
                   undoTimeout, undoButton, changed, probe, randomDraws>>

----------------------------------------------------------------------------
(* popup/popup.js *)

\* Date.now() of scheduleReminder in a create handler: the clock read after
\* the await of saveReminder.  late: the time picked in the form has come
\* in between.
ClockAtSchedule(late) == IF late THEN NextInstant(now) ELSE now

CanBeLate(dt) ==
    /\ NextInstant(now) <= MaxMinute * MsPerMinute
    /\ NextInstant(now) >= SelectedTime(dt)

\* the form's submit handler: validateForm, createReminderObject,
\* saveReminder, scheduleReminder
PopupCreate(textInput, dt, late) ==
    LET text == Trim(textInput)
        id == generateReminderId(now, RandomDraw(randomDraws))
        valid == text # <<>> /\ validateFutureDateTime(dt, now)
        reminder == createReminderObject(id, text, SelectedTime(dt), now)
        saved == saveReminder(store, reminder, now)
        scheduled == scheduleReminder(alarms, reminder, ClockAtSchedule(late))
    IN  /\ randomDraws < MaxCreates
        /\ late => (valid /\ CanBeLate(dt))
        /\ IF ~valid
           THEN UNCHANGED <<store, alarms, changed, randomDraws, last, now>>
           ELSE /\ randomDraws' = randomDraws + 1
                /\ now' = ClockAtSchedule(late)
                /\ store' = saved.store
                /\ alarms' = IF saved.ok THEN scheduled.alarms ELSE alarms
                /\ changed' = (changed \/ saved.store # store)
                /\ last' = [Before("popupCreate") EXCEPT
                              !.id = id, !.text = text, !.t = SelectedTime(dt),
                              !.ok = saved.ok /\ scheduled.ok]
        /\ UNCHANGED <<reminders, editingId, lastDismissedReminder,
                       undoTimeout, undoButton, probe>>

----------------------------------------------------------------------------
(* options/options.js *)

\* loadReminders(): reminders = await getAllReminders()
loadReminders(st) == st

\* chrome.storage.onChanged listener: loadReminders()
OnStorageChanged ==
    /\ changed
    /\ reminders' = loadReminders(store)
    /\ changed' = FALSE
    /\ last' = Idle("local")
    /\ UNCHANGED <<store, alarms, now, editingId, lastDismissedReminder,
                   undoTimeout, undoButton, probe, randomDraws>>

\* a card of the rendered list offers its buttons: renderReminders shows the
\* edit form instead of the card for the record being edited
CardShown(i) == i \in 1..Len(reminders) /\ reminders[i].id # editingId

\* handleAddReminder(e)
AddReminder(textInput, dt, late) ==
    LET text == Trim(textInput)
        id == generateReminderId(now, RandomDraw(randomDraws))
        valid == text # <<>> /\ validateFutureDateTime(dt, now)
        reminder == createReminderObject(id, text, SelectedTime(dt), now)
        saved == saveReminder(store, reminder, now)
        scheduled == scheduleReminder(alarms, reminder, ClockAtSchedule(late))
    IN  /\ ~TimerDue
        /\ randomDraws < MaxCreates
        /\ late => (valid /\ CanBeLate(dt))
        /\ IF ~valid
           THEN UNCHANGED <<store, alarms, changed, reminders, randomDraws, last, now>>
           ELSE /\ randomDraws' = randomDraws + 1
                /\ now' = ClockAtSchedule(late)
                /\ store' = saved.store
                /\ alarms' = IF saved.ok THEN scheduled.alarms ELSE alarms
                /\ changed' = (changed \/ saved.store # store)
                /\ reminders' = IF saved.ok /\ scheduled.ok
                                THEN loadReminders(saved.store) ELSE reminders
                /\ last' = [Before("add") EXCEPT
                              !.id = id, !.text = text, !.t = SelectedTime(dt),
                              !.ok = saved.ok /\ scheduled.ok]
        /\ undoButton' = FALSE
        /\ UNCHANGED <<editingId, lastDismissedReminder, undoTimeout, probe>>

\* startEdit(id): the Edit button is rendered on active cards only
StartEdit(i) ==
    /\ ~TimerDue
    /\ CardShown(i)
    /\ reminders[i].status = "active"
    /\ editingId' = reminders[i].id
    /\ last' = Idle("local")
    /\ UNCHANGED <<store, alarms, now, reminders, lastDismissedReminder,
                   undoTimeout, undoButton, changed, probe, randomDraws>>

\* the edit form of the record being edited is rendered
FormShown == editingId # <<>> /\ FindIndexById(reminders, editingId) > 0

\* cancelEdit()
CancelEdit ==
    /\ ~TimerDue
    /\ FormShown
    /\ editingId' = <<>>
    /\ last' = Idle("local")
    /\ UNCHANGED <<store, alarms, now, reminders, lastDismissedReminder,
                   undoTimeout, undoButton, changed, probe, randomDraws>>

\* where in saveEdit the time picked in the form comes: nowhere, before the
\* Date.now() of validateReminder in saveReminder, or after the save and
\* before the Date.now() of scheduleReminder
LatePoints == {"no", "save", "schedule"}

ClockAtSave(late) == IF late = "save" THEN NextInstant(now) ELSE now

\* saveEdit(id)
SaveEdit(textInput, dt, late) ==
    LET text == Trim(textInput)
        valid == text # <<>> /\ validateFutureDateTime(dt, now)
        i == FindIndexById(reminders, editingId)
        reminder == reminders[i]
        cancelled == cancelReminderById(alarms, reminder.id, reminder.scheduledTime)
        edited == [reminder EXCEPT
                     !.text = text,
                     !.scheduledTime = SelectedTime(dt),
                     !.alarmName = createAlarmName(reminder.id, SelectedTime(dt))]
        saved == saveReminder(store, edited, ClockAtSave(late))
        scheduled == scheduleReminder(cancelled, edited, ClockAtSchedule(late # "no"))
        ok == saved.ok /\ scheduled.ok
    IN  /\ ~TimerDue
        /\ FormShown
        /\ late # "no" => (valid /\ CanBeLate(dt))
        /\ late = "save" => randomDraws <= MaxLateEditCreates
        /\ IF ~valid
           THEN UNCHANGED <<store, alarms, changed, reminders, editingId, last, now>>
           ELSE /\ store' = saved.store
                /\ now' = ClockAtSchedule(late # "no")
                /\ alarms' = IF saved.ok THEN scheduled.alarms ELSE cancelled
                /\ changed' = (changed \/ saved.store # store)
                /\ reminders' = IF ok THEN loadReminders(saved.store)
                                ELSE [reminders EXCEPT ![i] = edited]
                /\ editingId' = IF ok THEN <<>> ELSE editingId
                /\ last' = [Before("edit") EXCEPT
                              !.id = reminder.id, !.text = text,
                              !.t = SelectedTime(dt), !.ok = ok,
                              !.copy = <<reminder>>]
        /\ undoButton' = FALSE
        /\ UNCHANGED <<lastDismissedReminder, undoTimeout, probe, randomDraws>>

\* handleDismiss keeping the record already remembered, when there is one
Dismiss_KeepsFirst(i) ==
    LET reminder == reminders[i]
        cancelled == cancelReminderById(alarms, reminder.id, reminder.scheduledTime)
        updated == updateReminderStatus(store, reminder.id, "dismissed", now)
    IN  /\ ~TimerDue
        /\ CardShown(i)
        /\ reminder.status = "active"
        /\ lastDismissedReminder' = IF lastDismissedReminder = <<>> THEN <<reminder>>
                                    ELSE lastDismissedReminder
        /\ alarms' = cancelled
        /\ store' = updated.store
        /\ changed' = (changed \/ updated.store # store)
        /\ undoButton' = updated.ok
        /\ reminders' = IF updated.ok THEN loadReminders(updated.store) ELSE reminders
        /\ undoTimeout' = IF updated.ok THEN now + UndoWindowMs ELSE NoTimer
        /\ last' = [Before("dismiss") EXCEPT
                      !.id = reminder.id, !.t = reminder.scheduledTime,
                      !.ok = updated.ok]
        /\ UNCHANGED <<now, editingId, probe, randomDraws>>

\* handleDismiss(id): the Dismiss button is rendered on active cards only
Dismiss(i) ==
    LET reminder == reminders[i]
        cancelled == cancelReminderById(alarms, reminder.id, reminder.scheduledTime)
        updated == updateReminderStatus(store, reminder.id, "dismissed", now)
    IN  /\ ~TimerDue
        /\ CardShown(i)
        /\ reminder.status = "active"
        /\ lastDismissedReminder' = <<reminder>>
        /\ alarms' = cancelled
        /\ store' = updated.store
        /\ changed' = (changed \/ updated.store # store)
        /\ undoButton' = updated.ok
        /\ reminders' = IF updated.ok THEN loadReminders(updated.store) ELSE reminders
        /\ undoTimeout' = IF updated.ok THEN now + UndoWindowMs ELSE NoTimer
        /\ last' = [Before("dismiss") EXCEPT
                      !.id = reminder.id, !.t = reminder.scheduledTime,
                      !.ok = updated.ok]
        /\ UNCHANGED <<now, editingId, probe, randomDraws>>

\* handleUndoDismiss(), from the Undo button of the toast
UndoDismiss ==
    LET reminder == lastDismissedReminder[1]
        updated == updateReminderStatus(store, reminder.id, "active", now)
        scheduled == IF reminder.scheduledTime > now
                     THEN scheduleReminder(alarms, reminder, now)
                     ELSE [ok |-> TRUE, alarms |-> alarms]
        ok == updated.ok /\ scheduled.ok
    IN  /\ ~TimerDue
        /\ undoButton
        /\ undoButton' = FALSE
        /\ IF lastDismissedReminder = <<>>
           THEN /\ last' = Before("undo")
                /\ UNCHANGED <<store, alarms, changed, reminders,
                               lastDismissedReminder, undoTimeout>>
           ELSE /\ store' = updated.store
                /\ alarms' = IF updated.ok THEN scheduled.alarms ELSE alarms
                /\ changed' = (changed \/ updated.store # store)
                /\ lastDismissedReminder' = IF ok THEN <<>> ELSE lastDismissedReminder
                /\ undoTimeout' = IF ok THEN NoTimer ELSE undoTimeout
                /\ reminders' = IF ok THEN loadReminders(updated.store) ELSE reminders
                /\ last' = [Before("undo") EXCEPT
                              !.id = reminder.id, !.t = reminder.scheduledTime,
                              !.ok = ok]
        /\ UNCHANGED <<now, editingId, probe, randomDraws>>

\* the timer callback leaving the remembered record in place
UndoTimerFired_KeepsRecord ==
    /\ TimerDue
    /\ undoTimeout' = NoTimer
    /\ last' = Idle("undoTimer")
    /\ UNCHANGED <<store, alarms, now, reminders, editingId, undoButton,
                   changed, probe, randomDraws, lastDismissedReminder>>

\* the callback of setTimeout(() => { lastDismissedReminder = null }, 5000)
UndoTimerFired ==
    /\ TimerDue
    /\ lastDismissedReminder' = <<>>
    /\ undoTimeout' = NoTimer
    /\ last' = Idle("undoTimer")
    /\ UNCHANGED <<store, alarms, now, reminders, editingId, undoButton,
                   changed, probe, randomDraws>>

\* the toast's own timer (showNotificationWithUndo, 5000 + 300 ms) hides the
\* Undo button after the undo timer has run
ToastHidden ==
    /\ undoButton
    /\ undoTimeout = NoTimer
    /\ undoButton' = FALSE
    /\ last' = Idle("local")
    /\ UNCHANGED <<store, alarms, now, reminders, editingId,
                   lastDismissedReminder, undoTimeout, changed, probe, randomDraws>>

\* handleDelete(id, scheduledTime), confirmed being the answer to confirm()
Delete(i, confirmed) ==
    LET reminder == reminders[i]
        cancelled == cancelReminderById(alarms, reminder.id, reminder.scheduledTime)
        deleted == deleteReminder(store, reminder.id)
    IN  /\ ~TimerDue
        /\ CardShown(i)
        /\ IF ~confirmed
           THEN UNCHANGED <<store, alarms, changed, reminders, undoButton, last>>
           ELSE /\ alarms' = cancelled
                /\ store' = deleted
                /\ changed' = (changed \/ deleted # store)
                /\ reminders' = loadReminders(deleted)
                /\ undoButton' = FALSE
                /\ last' = [Before("delete") EXCEPT
                              !.id = reminder.id, !.t = reminder.scheduledTime,
                              !.ok = TRUE]
        /\ UNCHANGED <<now, editingId, lastDismissedReminder, undoTimeout, probe, randomDraws>>

----------------------------------------------------------------------------
(* background/service-worker.js: chrome.alarms.onAlarm listener *)

\* what the notification service does when asked: permission denied; the
\* rich display succeeds; it fails and the fallback succeeds; both fail
DisplayOutcomes == {"denied", "rich", "fallback", "none"}

\* a one-shot alarm fires at or after its time and is then gone.  The
\* listener up to and including showNotification (lines 141-171): when it
\* notifies, the run stays in flight with updateReminderStatus still to come
AlarmFired(alarm, outcome) ==
    LET parsed == parseAlarmName(alarm.name)
        found == findReminder(store, parsed.reminderId, parsed.scheduledTime)
        reminder == store[found]
        notify == /\ alarm.name # <<>> /\ StartsWith(alarm.name, ReminderPrefix)
                  /\ parsed.valid
                  /\ Len(store) # 0
                  /\ found # 0
                  /\ reminder.status = "active"
    IN  /\ firing.stage = "idle"
        /\ alarm \in alarms
        /\ now >= alarm.when
        /\ (notify \/ outcome = "rich")   \* the service is asked only when notifying
        /\ alarms' = alarms \ {alarm}
        /\ IF notify
           THEN /\ firing' = [stage |-> "notified", id |-> reminder.id,
                              read |-> <<>>, overlap |-> 0]
                /\ last' = [Idle("fire") EXCEPT
                              !.store = store,
                              !.name = alarm.name, !.t = alarm.when,
                              !.parsed = parsed, !.found = found,
                              !.id = reminder.id, !.ok = TRUE,
                              !.attempts = showNotification(reminder, outcome)]
           ELSE /\ last' = [Idle("fire") EXCEPT
                              !.store = store,
                              !.name = alarm.name, !.t = alarm.when,
                              !.parsed = parsed,
                              !.found = IF parsed.valid /\ Len(store) # 0
                                        THEN found ELSE 0]
                /\ UNCHANGED firing
        /\ UNCHANGED <<store, changed, now, reminders, editingId,
                       lastDismissedReminder, undoTimeout, undoButton, probe,
                       randomDraws>>

\* updateReminderStatus of the handler run in flight, line 27:
\* reminders = await getAllReminders()
FireRead ==
    /\ firing.stage = "notified"
    /\ firing' = [firing EXCEPT !.stage = "read", !.read = store]
    /\ last' = Idle("local")
    /\ UNCHANGED <<store, alarms, now, reminders, editingId, lastDismissedReminder,
                   undoTimeout, undoButton, changed, probe, randomDraws>>

\* updateReminderStatus of the handler run in flight, lines 28-38: the
\* collection read is written back with the record marked completed, and
\* nothing is written when the record is not in it
FireWrite ==
    LET completed == bgUpdateReminderStatus(firing.read, firing.id, "completed")
    IN  /\ firing.stage = "read"
        /\ firing' = NoFiring
        /\ IF FindIndexById(firing.read, firing.id) > 0
           THEN /\ store' = completed
                /\ changed' = (changed \/ completed # store)
           ELSE UNCHANGED <<store, changed>>
        /\ last' = [Idle("fireWrite") EXCEPT
                      !.store = store, !.id = firing.id, !.read = firing.read,
                      !.ok = TRUE]
        /\ UNCHANGED <<alarms, now, reminders, editingId, lastDismissedReminder,
                       undoTimeout, undoButton, probe, randomDraws>>

----------------------------------------------------------------------------
(* The system *)

\* the steps of the dashboard that touch neither the store nor the alarms,
\* and the clock
LocalStep ==
    \/ Tick
    \/ OnStorageChanged
    \/ \E i \in 1..Len(reminders) : StartEdit(i)
    \/ CancelEdit
    \/ UndoTimerFired
    \/ ToastHidden

\* the handlers of the popup and of the dashboard that write the store and
\* the alarms
StorageStep ==
    \/ \E text \in CreateTexts, dt \in DateTimeInputs, late \in BOOLEAN :
          PopupCreate(text, dt, late)
    \/ \E text \in CreateTexts, dt \in DateTimeInputs, late \in BOOLEAN :
          AddReminder(text, dt, late)
    \/ \E text \in EditTexts, dt \in DateTimeInputs, late \in LatePoints :
          SaveEdit(text, dt, late)
    \/ \E i \in 1..Len(reminders) : Dismiss(i)
    \/ UndoDismiss
    \/ \E i \in 1..Len(reminders), confirmed \in BOOLEAN : Delete(i, confirmed)

\* The service worker runs in its own context: between the awaits of an
\* onAlarm handler run the other contexts take steps.  At most MaxOverlap
\* such steps are explored per run: between the read and the write of
\* updateReminderStatus always, between the notification and that read
\* while at most MaxOverlapCreates reminders have been created.  A run
\* writes nothing before its last step, so a step that leaves the store and
\* the alarms alone commutes with the run's earlier steps: it is taken
\* before the run or after it.
Next ==
    \/ /\ firing.stage = "idle"
       /\ (LocalStep \/ StorageStep)
       /\ UNCHANGED firing
    \/ /\ firing.stage # "idle"
       /\ firing.overlap < MaxOverlap
       /\ (firing.stage = "read" \/ randomDraws <= MaxOverlapCreates)
       /\ StorageStep
       /\ firing' = [firing EXCEPT !.overlap = firing.overlap + 1]
    \/ \E alarm \in alarms, outcome \in DisplayOutcomes : AlarmFired(alarm, outcome)
    \/ FireRead
    \/ FireWrite

Spec == Init /\ [][Next]_vars

\* the popup and the dashboard on their own, no alarm being delivered
NextPages == (LocalStep \/ StorageStep) /\ UNCHANGED firing

\* time passes, and the event loop of the dashboard runs a timer callback
\* that is due; no click of the user is ever bound to come
SpecLive ==
    /\ Init /\ [][NextPages]_vars
    /\ WF_vars(Tick /\ UNCHANGED firing)
    /\ WF_vars(UndoTimerFired /\ UNCHANGED firing)

----------------------------------------------------------------------------
(* parseAlarmName applied to the names createAlarmName builds *)

MaxIdLen == 3

IdChars == {"a", "7", "-"}

RECURSIVE SeqsUpTo(_, _)
\* the non-empty sequences over chars of length at most n
SeqsUpTo(chars, n) ==
    IF n = 0 THEN {}
    ELSE LET shorter == SeqsUpTo(chars, n - 1)
         IN  {<<c>> : c \in chars} \cup shorter
                \cup {Append(w, c) : w \in shorter, c \in chars}

\* ids, the generated form reminder-<ms>-<random> among them
ProbeIds ==
    SeqsUpTo(IdChars, MaxIdLen)
        \cup {generateReminderId(MsPerMinute - EarlyMs, RandomDraw(0))}

ProbeTimes == {1, 9, 10, MsPerMinute, MaxMinute * MsPerMinute}

InitParse ==
    /\ store = <<>>
    /\ alarms = {}
    /\ now = MsPerMinute - EarlyMs
    /\ reminders = <<>>
    /\ editingId = <<>>
    /\ lastDismissedReminder = <<>>
    /\ undoTimeout = NoTimer
    /\ undoButton = FALSE
    /\ changed = FALSE
    /\ randomDraws = 0
    /\ firing = NoFiring
    /\ last = NoLast
    /\ probe \in {[NoProbe EXCEPT !.phase = "input", !.id = id, !.t = t] :
                     id \in ProbeIds, t \in ProbeTimes}

\* name = createAlarmName(reminder); parseAlarmName(name)
ApplyParse ==
    /\ probe.phase = "input"
    /\ probe' = [probe EXCEPT
                   !.phase = "parsed",
                   !.name = createAlarmName(probe.id, probe.t),
                   !.result = parseAlarmName(createAlarmName(probe.id, probe.t))]
    /\ UNCHANGED <<store, alarms, now, reminders, editingId, lastDismissedReminder,
                   undoTimeout, undoButton, changed, randomDraws, firing, last>>

SpecParse == InitParse /\ [][ApplyParse]_vars

----------------------------------------------------------------------------
(* saveReminder then getReminder, applied to arbitrary values *)

ReminderValue(id, text, scheduledTime, createdAt, status, alarmName) ==
    [type |-> "object", id |-> id, text |-> text, scheduledTime |-> scheduledTime,
     createdAt |-> createdAt, status |-> status, alarmName |-> alarmName]

SaveIds == {Undefined, StringValue(<<>>), StringValue(<<"a">>), StringValue(<<"b">>),
            NumberValue(7)}
SaveTexts == {Undefined, StringValue(<<" ">>), StringValue(<<" ", "c">>), NumberValue(5)}
\* missing, zero, the time of the call, a future time as a number and as a
\* string, and a string that is no number
SaveTimes ==
    {Undefined, NumberValue(0), NumberValue(MsPerMinute - EarlyMs),
     NumberValue(MaxMinute * MsPerMinute),
     StringValue(NumToStr(MaxMinute * MsPerMinute)), StringValue(<<"x">>)}
SaveCreatedAts == {Undefined, NumberValue(0), NumberValue(1), StringValue(<<"5">>)}
SaveStatuses ==
    {Undefined, StringValue(<<>>), StringValue(<<"x">>)}
        \cup {StringValue(status) : status \in ValidStatusTexts}
SaveAlarmNames == {Undefined, StringValue(<<"n">>)}

SaveInputs ==
    {Undefined, Null, StringValue(<<"a">>)}
        \cup {ReminderValue(id, text, scheduledTime, createdAt, status, alarmName) :
                 id \in SaveIds, text \in SaveTexts, scheduledTime \in SaveTimes,
                 createdAt \in SaveCreatedAts, status \in SaveStatuses,
                 alarmName \in SaveAlarmNames}

\* a record saved earlier under id, as the store holds it
Stored(id) ==
    ReminderValue(StringValue(id), StringValue(<<"o">>), NumberValue(MsPerMinute),
                  NumberValue(1), StringValue(DismissedText), Undefined)

SaveStores == {<<>>, <<Stored(<<"a">>)>>, <<Stored(<<"b">>), Stored(<<"a">>)>>}

InitSave ==
    /\ store = <<>>
    /\ alarms = {}
    /\ now = MsPerMinute - EarlyMs
    /\ reminders = <<>>
    /\ editingId = <<>>
    /\ lastDismissedReminder = <<>>
    /\ undoTimeout = NoTimer
    /\ undoButton = FALSE
    /\ changed = FALSE
    /\ randomDraws = 0
    /\ firing = NoFiring
    /\ last = NoLast
    /\ probe \in {[NoProbe EXCEPT !.phase = "input", !.x = x, !.st = st] :
                     x \in SaveInputs, st \in SaveStores}

\* await saveReminder(x) and, when x has properties, await getReminder(x.id)
ApplySave ==
    LET saved == saveReminderValue(probe.st, probe.x, now)
    IN  /\ probe.phase = "input"
        /\ probe' = [probe EXCEPT
                       !.phase = "saved",
                       !.saved = saved,
                       !.got = IF probe.x.type = "object"
                               THEN getReminderValue(saved.store, probe.x.id)
                               ELSE <<>>]
        /\ UNCHANGED <<store, alarms, now, reminders, editingId, lastDismissedReminder,
                       undoTimeout, undoButton, changed, randomDraws, firing, last>>

SpecSave == InitSave /\ [][ApplySave]_vars

----------------------------------------------------------------------------
(* scheduleReminder and cancelReminderById, applied to ids and times that are
   present or missing and to sets of registered alarms *)

AlarmIds == {<<>>, <<"a">>, <<"b">>}

\* missing (0), a time already past, the time of the call, and the times
\* the forms offer
AlarmTimes ==
    {0, MsPerMinute - 2 * EarlyMs, MsPerMinute - EarlyMs}
        \cup {SelectedTime(dt) : dt \in 1..MaxMinute}

\* what scheduleReminder has registered for a record
Registered(id, t) == [name |-> createAlarmName(id, t), when |-> t]

RegisteredSets ==
    SUBSET {Registered(<<"a">>, SelectedTime(1)), Registered(<<"a">>, SelectedTime(MaxMinute)),
            Registered(<<"b">>, SelectedTime(1))}

InitAlarm ==
    /\ store = <<>>
    /\ alarms = {}
    /\ now = MsPerMinute - EarlyMs
    /\ reminders = <<>>
    /\ editingId = <<>>
    /\ lastDismissedReminder = <<>>
    /\ undoTimeout = NoTimer
    /\ undoButton = FALSE
    /\ changed = FALSE
    /\ randomDraws = 0
    /\ firing = NoFiring
    /\ last = NoLast
    /\ probe \in {[NoProbe EXCEPT !.phase = "input", !.id = id, !.t = t, !.as = as] :
                     id \in AlarmIds, t \in AlarmTimes, as \in RegisteredSets}

\* await cancelReminderById(id, scheduledTime)
ApplyCancel ==
    /\ probe.phase = "input"
    /\ probe' = [probe EXCEPT
                   !.phase = "cancelled",
                   !.out = [ok |-> TRUE,
                            alarms |-> cancelReminderById(probe.as, probe.id, probe.t)]]
    /\ UNCHANGED <<store, alarms, now, reminders, editingId, lastDismissedReminder,
                   undoTimeout, undoButton, changed, randomDraws, firing, last>>

\* await scheduleReminder({id, scheduledTime})
ApplySchedule ==
    /\ probe.phase = "input"
    /\ probe' = [probe EXCEPT
                   !.phase = "scheduled",
                   !.out = scheduleReminder(probe.as,
                                            [id |-> probe.id, scheduledTime |-> probe.t],
                                            now)]
    /\ UNCHANGED <<store, alarms, now, reminders, editingId, lastDismissedReminder,
                   undoTimeout, undoButton, changed, randomDraws, firing, last>>

SpecAlarm == InitAlarm /\ [][ApplyCancel \/ ApplySchedule]_vars

----------------------------------------------------------------------------
(* parseAlarmName applied to arbitrary keys *)

KeyHeads == {ReminderPrefix, <<"r", "e", "m", "i", "n", "d", "e", "r">>,
             <<"x">> \o ReminderPrefix, <<>>}
KeyIds == {<<>>, <<"a">>, <<" ">>, <<"a", "-", "b">>, <<" ", "a", " ">>}
KeyTails == {<<>>, <<"-">>, <<"-", "5">>, <<"-", "0">>, <<"-", "x">>,
             <<"-", "5", "x">>, <<"-", "6", "0", "0", "0", "0">>}

ProbeKeys == {head \o id \o tail : head \in KeyHeads, id \in KeyIds, tail \in KeyTails}

InitKey ==
    /\ store = <<>>
    /\ alarms = {}
    /\ now = MsPerMinute - EarlyMs
    /\ reminders = <<>>
    /\ editingId = <<>>
    /\ lastDismissedReminder = <<>>
    /\ undoTimeout = NoTimer
    /\ undoButton = FALSE
    /\ changed = FALSE
    /\ randomDraws = 0
    /\ firing = NoFiring
    /\ last = NoLast
    /\ probe \in {[NoProbe EXCEPT !.phase = "input", !.name = key] : key \in ProbeKeys}

\* parseAlarmName(key)
ApplyParseKey ==
    /\ probe.phase = "input"
    /\ probe' = [probe EXCEPT !.phase = "parsed", !.result = parseAlarmName(probe.name)]
    /\ UNCHANGED <<store, alarms, now, reminders, editingId, lastDismissedReminder,
                   undoTimeout, undoButton, changed, randomDraws, firing, last>>

SpecKey == InitKey /\ [][ApplyParseKey]_vars

----------------------------------------------------------------------------
(* the onAlarm listener applied to alarms of arbitrary names *)

\* a stored record of the given id and status, due at the first minute
StoredReminder(id, status) ==
    [createReminderObject(id, <<"a">>, MsPerMinute, MsPerMinute - EarlyMs)
        EXCEPT !.status = status]

FireStores ==
    {<<>>,
     <<StoredReminder(<<"a">>, "active")>>,
     <<StoredReminder(<<"b">>, "dismissed"), StoredReminder(<<"a">>, "active")>>}

\* the alarm delivered, due at the first minute whatever its name says
FiredAlarm(key) == [name |-> key, when |-> MsPerMinute]

\* another alarm, registered for a later time
Bystander == Registered(<<"z">>, MaxMinute * MsPerMinute)

InitFire ==
    /\ store \in FireStores
    /\ alarms \in {{FiredAlarm(key), Bystander} : key \in ProbeKeys}
    /\ now = MsPerMinute
    /\ reminders = <<>>
    /\ editingId = <<>>
    /\ lastDismissedReminder = <<>>
    /\ undoTimeout = NoTimer
    /\ undoButton = FALSE
    /\ changed = FALSE
    /\ randomDraws = 0
    /\ firing = NoFiring
    /\ last = NoLast
    /\ probe = NoProbe

NextFire ==
    \/ \E alarm \in alarms, outcome \in DisplayOutcomes : AlarmFired(alarm, outcome)
    \/ FireRead
    \/ FireWrite

SpecFire == InitFire /\ [][NextFire]_vars

----------------------------------------------------------------------------
(* shared/storage.js when chrome.storage.local.get fails or the value under
   the key is not an array *)

\* the value under STORAGE_KEY: an array of records, or anything else
ArrayOf(items) == [array |-> TRUE, items |-> items]

NotAnArray == [array |-> FALSE, items |-> <<>>]

\* what chrome.storage.local.get does: resolves or rejects
ReadOutcomes == {"resolves", "rejects"}

\* getAllReminders() on the stored value, lines 9-18
getAllRemindersOf(value, read) ==
    IF read = "resolves" /\ value.array THEN value.items ELSE <<>>

\* saveReminder(reminder) at time t: [ok, value], value being what is stored
\* afterwards
saveReminderOf(value, r, t, read) ==
    IF ~validateReminder(r, t) THEN [ok |-> FALSE, value |-> value]
    ELSE [ok |-> TRUE,
          value |-> ArrayOf(Upsert(getAllRemindersOf(value, read), normalizeReminder(r, t)))]

\* deleteReminder(id): the value stored afterwards
deleteReminderOf(value, id, read) ==
    IF id = <<>> THEN value
    ELSE ArrayOf(FilterOutId(getAllRemindersOf(value, read), id))

\* updateReminderStatus(id, status) at time t, reads being the outcomes of the
\* get of getReminder and of the get of saveReminder
updateReminderStatusOf(value, id, status, t, reads) ==
    LET got == getReminder(getAllRemindersOf(value, reads[1]), id)
    IN  IF id = <<>> \/ status = "" THEN [ok |-> TRUE, value |-> value]
        ELSE IF status \notin ValidStatuses THEN [ok |-> FALSE, value |-> value]
        ELSE IF got = <<>> THEN [ok |-> TRUE, value |-> value]
        ELSE saveReminderOf(value, [got[1] EXCEPT !.status = status], t, reads[2])

\* a record the forms have created, due at the last minute
ReadRecord(id) ==
    createReminderObject(id, <<"a">>, MaxMinute * MsPerMinute, MsPerMinute - EarlyMs)

ReadValues ==
    {NotAnArray, ArrayOf(<<>>), ArrayOf(<<ReadRecord(<<"a">>)>>),
     ArrayOf(<<ReadRecord(<<"b">>), ReadRecord(<<"a">>)>>)}

\* the calls made: the operation, the id it is about, the status asked for
ReadCalls ==
    {[op |-> "save", id |-> id, status |-> "", reads |-> <<r>>] :
        id \in {<<"a">>, <<"c">>}, r \in ReadOutcomes}
    \cup {[op |-> "delete", id |-> id, status |-> "", reads |-> <<r>>] :
        id \in {<<>>, <<"a">>, <<"c">>}, r \in ReadOutcomes}
    \cup {[op |-> "status", id |-> id, status |-> st, reads |-> <<r1, r2>>] :
        id \in {<<"a">>, <<"c">>}, st \in {"dismissed", "completed"},
        r1 \in ReadOutcomes, r2 \in ReadOutcomes}

InitRead ==
    /\ store = <<>>
    /\ alarms = {}
    /\ now = MsPerMinute - EarlyMs
    /\ reminders = <<>>
    /\ editingId = <<>>
    /\ lastDismissedReminder = <<>>
    /\ undoTimeout = NoTimer
    /\ undoButton = FALSE
    /\ changed = FALSE
    /\ randomDraws = 0
    /\ firing = NoFiring
    /\ last = NoLast
    /\ probe \in {[NoProbe EXCEPT !.phase = "input", !.op = c.op, !.id = c.id,
                                  !.status = c.status, !.reads = c.reads,
                                  !.value = v] :
                     c \in ReadCalls, v \in ReadValues}

\* await saveReminder(createReminderObject(id, ...))
ApplySaveOf ==
    /\ probe.phase = "input"
    /\ probe.op = "save"
    /\ probe' = [probe EXCEPT
                   !.phase = "written",
                   !.written = saveReminderOf(probe.value, ReadRecord(probe.id), now,
                                              probe.reads[1]).value]
    /\ UNCHANGED <<store, alarms, now, reminders, editingId, lastDismissedReminder,
                   undoTimeout, undoButton, changed, randomDraws, firing, last>>

\* await deleteReminder(id)
ApplyDeleteOf ==
    /\ probe.phase = "input"
    /\ probe.op = "delete"
    /\ probe' = [probe EXCEPT
                   !.phase = "written",
                   !.written = deleteReminderOf(probe.value, probe.id, probe.reads[1])]
    /\ UNCHANGED <<store, alarms, now, reminders, editingId, lastDismissedReminder,
                   undoTimeout, undoButton, changed, randomDraws, firing, last>>

\* await updateReminderStatus(id, status)
ApplyStatusOf ==
    /\ probe.phase = "input"
    /\ probe.op = "status"
    /\ probe' = [probe EXCEPT
                   !.phase = "written",
                   !.written = updateReminderStatusOf(probe.value, probe.id, probe.status,
                                                      now, probe.reads).value]
    /\ UNCHANGED <<store, alarms, now, reminders, editingId, lastDismissedReminder,
                   undoTimeout, undoButton, changed, randomDraws, firing, last>>

NextRead == ApplySaveOf \/ ApplyDeleteOf \/ ApplyStatusOf

SpecRead == InitRead /\ [][NextRead]_vars

----------------------------------------------------------------------------
(* onAlarm listener runs interleaved at their awaits *)

\* listener runs that can be in flight together
MaxRuns == 2

Runs == 1..MaxRuns

\* two stored records created by the forms, the second due with the first or
\* a minute after it, and either one already dismissed
RunStores ==
    {<<[createReminderObject(<<"a">>, <<"a">>, MsPerMinute, 0) EXCEPT !.status = sa],
       [createReminderObject(<<"b">>, <<"b">>, tb, 0) EXCEPT !.status = sb]>> :
        tb \in {MsPerMinute, MaxMinute * MsPerMinute},
        sa \in {"active", "dismissed"}, sb \in {"active", "dismissed"}}

\* the alarms scheduleReminder has registered for the active records of st
AlarmsOf(st) ==
    {Registered(st[i].id, st[i].scheduledTime) :
        i \in {j \in 1..Len(st) : st[j].status = "active"}}

\* every alarm is due; firing holds one run per listener invocation and
\* probe.shown the ids of the records displayed so far, in order
InitRuns ==
    /\ store \in RunStores
    /\ alarms = AlarmsOf(store)
    /\ now = MaxMinute * MsPerMinute
    /\ reminders = <<>>
    /\ editingId = <<>>
    /\ lastDismissedReminder = <<>>
    /\ undoTimeout = NoTimer
    /\ undoButton = FALSE
    /\ changed = FALSE
    /\ randomDraws = 0
    /\ firing = [k \in Runs |-> NoFiring]
    /\ last = NoLast
    /\ probe = NoProbe

\* the display attempts that put a notification on screen
Displayed(attempts) == \E n \in 1..Len(attempts) : attempts[n].ok

\* run k of the listener, lines 141-171: the alarm is delivered, the
\* collection read at line 154 decides, and showNotification is called
RunListener(k, alarm, outcome) ==
    LET parsed == parseAlarmName(alarm.name)
        found == findReminder(store, parsed.reminderId, parsed.scheduledTime)
        reminder == store[found]
        notify == /\ alarm.name # <<>> /\ StartsWith(alarm.name, ReminderPrefix)
                  /\ parsed.valid
                  /\ Len(store) # 0
                  /\ found # 0
                  /\ reminder.status = "active"
    IN  /\ firing[k].stage = "idle"
        /\ alarm \in alarms
        /\ now >= alarm.when
        /\ (notify \/ outcome = "rich")
        /\ alarms' = alarms \ {alarm}
        /\ IF notify
           THEN /\ firing' = [firing EXCEPT ![k] =
                                 [stage |-> "notified", id |-> reminder.id,
                                  read |-> <<>>, overlap |-> 0]]
                /\ probe' = [probe EXCEPT !.shown =
                                IF Displayed(showNotification(reminder, outcome))
                                THEN Append(@, reminder.id) ELSE @]
           ELSE UNCHANGED <<firing, probe>>
        /\ UNCHANGED <<store, changed, now, reminders, editingId,
                       lastDismissedReminder, undoTimeout, undoButton, last,
                       randomDraws>>

\* updateReminderStatus of run k, line 27
RunRead(k) ==
    /\ firing[k].stage = "notified"
    /\ firing' = [firing EXCEPT ![k].stage = "read", ![k].read = store]
    /\ UNCHANGED <<store, alarms, now, reminders, editingId, lastDismissedReminder,
                   undoTimeout, undoButton, changed, probe, randomDraws, last>>

\* updateReminderStatus of run k, lines 28-38
RunWrite(k) ==
    /\ firing[k].stage = "read"
    /\ firing' = [firing EXCEPT ![k] = NoFiring]
    /\ IF FindIndexById(firing[k].read, firing[k].id) > 0
       THEN /\ store' = bgUpdateReminderStatus(firing[k].read, firing[k].id, "completed")
            /\ changed' = TRUE
       ELSE UNCHANGED <<store, changed>>
    /\ UNCHANGED <<alarms, now, reminders, editingId, lastDismissedReminder,
                   undoTimeout, undoButton, probe, randomDraws, last>>

NextRuns ==
    \E k \in Runs :
        \/ \E alarm \in alarms, outcome \in DisplayOutcomes : RunListener(k, alarm, outcome)
        \/ RunRead(k)
        \/ RunWrite(k)

SpecRuns == InitRuns /\ [][NextRuns]_vars

----------------------------------------------------------------------------
(* Claims *)

\* the status stored for id, "" when no record has that id
StatusOf(st, id) ==
    IF FindIndexById(st, id) = 0 THEN "" ELSE st[FindIndexById(st, id)].status

HasAlarmNamed(as, name) == \E a \in as : a.name = name

\* the stored records an operation found before it ran that carry id
Owners(st, id) == {i \in 1..Len(st) : st[i].id = id}

\* C1: whenever the trigger registered for a stored active record fires, the
\* notification is attempted for that same record and the run goes on to mark
\* that record completed, whatever other records the store holds.
C1_FireNotifiesOwner ==
    last.op = "fire" =>
        \A i \in 1..Len(last.store) :
            (/\ last.store[i].status = "active"
             /\ last.name = createAlarmName(last.store[i].id, last.store[i].scheduledTime))
            => /\ last.ok
               /\ last.id = last.store[i].id
               /\ firing.stage = "notified"
               /\ firing.id = last.store[i].id

\* C2: parseAlarmName(createAlarmName({id, t})) is exactly {reminderId: id,
\* scheduledTime: t}, for every id (hyphens included) and every positive t.
C2_ParseRoundTrip ==
    probe.phase = "parsed" =>
        probe.result = [valid |-> TRUE, reminderId |-> probe.id,
                        scheduledTime |-> probe.t]

\* C3: dismissing a record whose stored status is active, its scheduledTime
\* future or past, stores status dismissed, leaves no trigger under its derived
\* name and remembers the record for undo.
C3_DismissActive ==
    (last.op = "dismiss" /\ StatusOf(last.store, last.id) = "active") =>
        /\ StatusOf(store, last.id) = "dismissed"
        /\ \A i \in Owners(last.store, last.id) :
              ~HasAlarmNamed(alarms, createAlarmName(last.id, last.store[i].scheduledTime))
        /\ lastDismissedReminder # <<>>
        /\ lastDismissedReminder[1].id = last.id

\* the undo ran inside the undo window on a record stored as dismissed
UndoOfDismissed ==
    /\ last.op = "undo"
    /\ last.windowOpen
    /\ last.remembered # <<>>
    /\ last.remembered[1].id = last.id
    /\ StatusOf(last.store, last.id) = "dismissed"

\* C4: after dismiss and undo within the window, the scheduledTime still in the
\* future, the stored status is active again and a trigger is registered under
\* 'reminder-' + id + '-' + scheduledTime for exactly the original scheduledTime.
C4_UndoRestoresFuture ==
    UndoOfDismissed =>
        \A i \in Owners(last.store, last.id) :
            last.store[i].scheduledTime > now =>
                /\ StatusOf(store, last.id) = "active"
                /\ [name |-> createAlarmName(last.id, last.store[i].scheduledTime),
                    when |-> last.store[i].scheduledTime] \in alarms

C4_Witness ==
    /\ UndoOfDismissed
    /\ last.ok
    /\ StatusOf(store, last.id) = "active"
    /\ \E i \in Owners(store, last.id) :
          /\ store[i].scheduledTime > now
          /\ HasAlarmNamed(alarms, createAlarmName(last.id, store[i].scheduledTime))
          /\ ~HasAlarmNamed(last.alarms, createAlarmName(last.id, store[i].scheduledTime))

\* C5: undo within the window of a dismissed record whose scheduledTime has
\* passed by the time of the undo restores status active and registers no
\* trigger for it.
C5_UndoRestoresPast ==
    UndoOfDismissed =>
        \A i \in Owners(last.store, last.id) :
            last.store[i].scheduledTime <= now =>
                /\ StatusOf(store, last.id) = "active"
                /\ ~HasAlarmNamed(alarms,
                                  createAlarmName(last.id, last.store[i].scheduledTime))

\* C6: a trigger fire whose encoded id names a stored record with status
\* completed or dismissed shows no notification (for any record) and leaves the
\* stored collection unchanged.
C6_StaleFireIsNoOp ==
    (/\ last.op = "fire"
     /\ \E i \in 1..Len(last.store) :
           /\ last.store[i].status \in {"completed", "dismissed"}
           /\ last.name = createAlarmName(last.store[i].id, last.t))
    => (~last.ok /\ firing.stage = "idle" /\ store = last.store)

\* the records of st that are active and within the tolerance of time t
ActiveNear(st, t) ==
    {i \in 1..Len(st) : st[i].status = "active" /\ WithinTolerance(st[i], t)}

\* C7: when the id the handler reads from the fired name matches no stored
\* record and exactly one active record lies within 1000 ms of the encoded
\* time, the handler notifies that record and goes on to mark it completed,
\* whatever non-active records are stored and in whatever order.
C7_FallbackPicksActive ==
    (/\ last.op = "fire"
     /\ last.parsed.valid
     /\ FindIndexById(last.store, last.parsed.reminderId) = 0
     /\ Cardinality(ActiveNear(last.store, last.parsed.scheduledTime)) = 1)
    => \A i \in ActiveNear(last.store, last.parsed.scheduledTime) :
          /\ last.ok
          /\ last.id = last.store[i].id
          /\ firing.stage = "notified"
          /\ firing.id = last.store[i].id

\* C8: a confirmed delete of a record of any status removes the record with
\* that id from the store and leaves no trigger registered under the name
\* derived from its id and scheduledTime.
C8_DeleteRemoves ==
    last.op = "delete" =>
        /\ FindIndexById(store, last.id) = 0
        /\ \A i \in Owners(last.store, last.id) :
              ~HasAlarmNamed(alarms, createAlarmName(last.id, last.store[i].scheduledTime))

C8_Witness ==
    /\ last.op = "delete"
    /\ StatusOf(last.store, last.id) = "active"
    /\ HasAlarmNamed(last.alarms, createAlarmName(last.id, last.t))
    /\ Len(store) > 0

\* the edit succeeded on a record stored as active and moved its time
EditOfActive(i) ==
    /\ last.op = "edit"
    /\ last.ok
    /\ i \in Owners(last.store, last.id)
    /\ last.store[i].status = "active"
    /\ last.store[i].scheduledTime # last.t

\* C9: after a successful edit of an active record from T1 to T2 the stored
\* record has the new text, scheduledTime T2 and status active, a trigger is
\* registered under the name of (id, T2) for T2 and none under that of (id, T1).
C9_EditReschedules ==
    \A i \in 1..Len(last.store) :
        EditOfActive(i) =>
            /\ FindIndexById(store, last.id) # 0
            /\ store[FindIndexById(store, last.id)].text = last.text
            /\ store[FindIndexById(store, last.id)].scheduledTime = last.t
            /\ store[FindIndexById(store, last.id)].status = "active"
            /\ [name |-> createAlarmName(last.id, last.t), when |-> last.t] \in alarms
            /\ ~HasAlarmNamed(alarms,
                              createAlarmName(last.id, last.store[i].scheduledTime))

C9_Witness ==
    \E i \in 1..Len(last.store) :
        /\ EditOfActive(i)
        /\ last.store[i].text # last.text
        /\ HasAlarmNamed(last.alarms,
                         createAlarmName(last.id, last.store[i].scheduledTime))

\* C10: an edit is applied only to a record whose stored status is active: the
\* text and scheduledTime of a completed or dismissed record are never changed
\* by edit and edit registers no trigger for it.
C10_EditOnlyActive ==
    \A i \in 1..Len(last.store) :
        (/\ last.op = "edit"
         /\ last.store[i].id = last.id
         /\ last.store[i].status \in {"completed", "dismissed"})
        => /\ FindIndexById(store, last.id) # 0
           /\ store[FindIndexById(store, last.id)].text = last.store[i].text
           /\ store[FindIndexById(store, last.id)].scheduledTime
                 = last.store[i].scheduledTime
           /\ alarms \subseteq last.alarms

\* C11: after a successful create, from the popup or the dashboard, the store
\* holds exactly one new record, with a fresh id, status active, the trimmed
\* non-empty text and the chosen scheduledTime, and a trigger is registered
\* for that time under 'reminder-' + id + '-' + scheduledTime.
C11_CreateStoresOne ==
    (last.op \in {"popupCreate", "add"} /\ last.ok) =>
        /\ Len(store) = Len(last.store) + 1
        /\ SubSeq(store, 1, Len(last.store)) = last.store
        /\ FindIndexById(last.store, last.id) = 0
        /\ store[Len(store)].id = last.id
        /\ store[Len(store)].status = "active"
        /\ store[Len(store)].text # <<>>
        /\ store[Len(store)].text = Trim(store[Len(store)].text)
        /\ store[Len(store)].text = last.text
        /\ store[Len(store)].scheduledTime = last.t
        /\ [name |-> ReminderPrefix \o last.id \o <<"-">> \o NumToStr(last.t),
            when |-> last.t] \in alarms

C11_Witness ==
    /\ last.op \in {"popupCreate", "add"}
    /\ last.ok
    /\ Len(last.store) = 1
    /\ Len(store) = 2
    /\ store[2].text = <<"a">>

\* C12: when B is dismissed while A is pending for undo, only B is
\* remembered; an undo changes no record but the remembered one, so A stays
\* dismissed, and after it nothing is left to undo.
C12_OnlyLastRemembered ==
    /\ (last.op = "dismiss" /\ last.ok) =>
          /\ lastDismissedReminder # <<>>
          /\ lastDismissedReminder[1].id = last.id
    /\ last.op = "undo" =>
          /\ \A i \in 1..Len(last.store) :
                (last.remembered = <<>> \/ last.store[i].id # last.remembered[1].id)
                => (i <= Len(store) /\ store[i] = last.store[i])
          /\ last.ok => (lastDismissedReminder = <<>> /\ ~undoButton)

\* A and B were dismissed at the first instant, so A was pending when B was
\* dismissed; the undo restored B and A is still dismissed
C12_Witness ==
    /\ last.op = "undo"
    /\ last.ok
    /\ now = MsPerMinute - EarlyMs
    /\ StatusOf(last.store, last.id) = "dismissed"
    /\ StatusOf(store, last.id) = "active"
    /\ \E i \in 1..Len(store) :
          store[i].id # last.id /\ store[i].status = "dismissed"

\* C13: once the undo timer has run, the remembered record is cleared and a
\* later undo is a no-op: the store and the registered triggers stay as they
\* were.
C13_ExpiredUndoIsNoOp ==
    /\ last.op = "undoTimer" => lastDismissedReminder = <<>>
    /\ (last.op = "undo" /\ ~last.windowOpen) =>
          /\ last.remembered = <<>>
          /\ store = last.store
          /\ alarms = last.alarms

C13_Witness ==
    /\ last.op = "undo"
    /\ ~last.windowOpen
    /\ \E i \in 1..Len(store) :
          /\ store[i].status = "dismissed"
          /\ ~HasAlarmNamed(alarms, createAlarmName(store[i].id, store[i].scheduledTime))

\* C14: a stored status becomes completed only by the write of a trigger-fire
\* handler and only from active: under every interleaving of the handler with
\* the other contexts, a record that is dismissed, or absent, when the
\* handler writes is never turned into completed.
C14_CompletedOnlyFromActive ==
    [][\A i \in 1..Len(store') :
          (/\ store'[i].status = "completed"
           /\ StatusOf(store, store'[i].id) # "completed")
          => (/\ firing.stage = "read"
              /\ StatusOf(store, store'[i].id) = "active")]_vars

\* C15: once a stored status is completed no later operation, in any
\* context, changes it to another value; the record can only disappear, and
\* only by delete.
C15_CompletedIsFinal ==
    [][\A i \in 1..Len(store) :
          store[i].status = "completed"
          => \/ StatusOf(store', store[i].id) = "completed"
             \/ (StatusOf(store', store[i].id) = "" /\ last'.op = "delete")]_vars

\* the handler run has notified and goes on to updateReminderStatus
FireGoesOn ==
    /\ last.op = "fire"
    /\ last.ok
    /\ firing.stage = "notified"
    /\ firing.id = last.id

\* C16: every transition to completed by a trigger fire is preceded, in the
\* same handler run, by at least one display attempt, rich or fallback: the
\* run that goes on to mark its record completed has made an attempt.
C16_AttemptBeforeCompleted ==
    FireGoesOn => Len(last.attempts) >= 1

\* C17: when the rich display fails a fallback display is attempted under the
\* identifier 'fallback-' + the rich one; when the fallback fails too the
\* handler run still goes on to updateReminderStatus, whose write marks the
\* record it finds completed.
C17_FallbackThenCompleted ==
    /\ (/\ last.op = "fire"
        /\ last.ok
        /\ last.attempts # <<>>
        /\ ~last.attempts[1].ok)
       => /\ Len(last.attempts) = 2
          /\ last.attempts[1].id
                = <<"r", "e", "m", "i", "n", "d", "e", "r", "-">> \o last.id
          /\ last.attempts[2].id
                = <<"f", "a", "l", "l", "b", "a", "c", "k", "-">> \o last.attempts[1].id
          /\ last.attempts[2].id # last.attempts[1].id
          /\ ~last.attempts[2].ok => FireGoesOn
    /\ (last.op = "fireWrite" /\ FindIndexById(last.read, last.id) > 0)
       => StatusOf(store, last.id) = "completed"

C17_Witness ==
    /\ FireGoesOn
    /\ StatusOf(last.store, last.id) = "active"
    /\ Len(last.attempts) = 2
    /\ ~last.attempts[1].ok
    /\ ~last.attempts[2].ok

\* C18: for every record that passes validation, saveReminder(record) then
\* getReminder(record.id) returns the input with its fields kept,
\* scheduledTime and createdAt as numbers (createdAt the time of the save when
\* none is given) and status active when none is given.
C18_SaveThenGet ==
    (probe.phase = "saved" /\ probe.saved.ok) =>
        /\ Len(probe.got) = 1
        /\ probe.got[1].type = "object"
        /\ probe.got[1].id = probe.x.id
        /\ probe.got[1].text = probe.x.text
        /\ probe.got[1].alarmName = probe.x.alarmName
        /\ probe.got[1].scheduledTime.type = "number"
        /\ probe.got[1].scheduledTime.num = ToNumber(probe.x.scheduledTime).val
        /\ probe.got[1].createdAt.type = "number"
        /\ probe.got[1].createdAt.num
              = IF ToNumber(probe.x.createdAt).nan \/ ToNumber(probe.x.createdAt).val = 0
                THEN now ELSE ToNumber(probe.x.createdAt).val
        /\ probe.got[1].status
              = IF probe.x.status \in {Undefined, StringValue(<<>>)}
                THEN StringValue(ActiveText) ELSE probe.x.status

C18_Witness ==
    /\ probe.phase = "saved"
    /\ probe.saved.ok
    /\ probe.x.scheduledTime.type = "string"
    /\ probe.x.createdAt.type = "string"
    /\ probe.x.status = Undefined
    /\ FindIndexByIdValue(probe.st, probe.x.id) = 2
    /\ Len(probe.saved.store) = 2
    /\ probe.got # <<>>
    /\ probe.got[1] # probe.st[2]

\* the record breaks one of the validation rules at time t, a status being
\* given when it is a non-empty value
BreaksRule(x, t) ==
    \/ x.type # "object"
    \/ x.id.type # "string" \/ x.id.str = <<>>
    \/ x.text.type # "string" \/ Trim(x.text.str) = <<>>
    \/ x.scheduledTime = Undefined
    \/ ToNumber(x.scheduledTime).nan
    \/ ToNumber(x.scheduledTime).val <= t
    \/ (/\ x.status \notin {Undefined, StringValue(<<>>)}
        /\ x.status \notin {StringValue(status) : status \in ValidStatusTexts})

C20_OneRecordPerId ==
    \A i, j \in 1..Len(store) : store[i].id = store[j].id => i = j

C20_Witness ==
    /\ Len(store) = 2
    /\ store[1].status = "completed"
    /\ store[2].status = "active"
    /\ last.op = "edit"
    /\ last.ok
    /\ last.id = store[2].id

\* the alarm's name is the one createAlarmName builds for id and one of the
\* times the forms offer
EncodesId(a, id) ==
    \E dt \in 1..MaxMinute : a.name = createAlarmName(id, SelectedTime(dt))

\* C21: in every reachable state every registered trigger whose name encodes
\* the id of a stored active record is named for, and set to fire at, that
\* record's stored scheduledTime; no trigger for another time of an active
\* record stays registered.
C21_TriggerAtStoredTime ==
    \A a \in alarms : \A i \in 1..Len(store) :
        (store[i].status = "active" /\ EncodesId(a, store[i].id))
        => /\ a.when = store[i].scheduledTime
           /\ a.name = createAlarmName(store[i].id, store[i].scheduledTime)

\* C22: a create that fails, the store rejecting the record or
\* scheduleReminder rejecting the trigger, leaves the stored collection as it
\* was: no record with the new id is stored.
C22_FailedCreateStoresNothing ==
    (last.op \in {"popupCreate", "add"} /\ ~last.ok) =>
        /\ store = last.store
        /\ FindIndexById(store, last.id) = 0

\* C23: operations that overlap leave the collection that running them one
\* after the other leaves: the write of an onAlarm handler run gives what its
\* updateReminderStatus gives on the collection as the other contexts left
\* it, so that no write of theirs is lost or reverted.
C23_NoLostWrite ==
    last.op = "fireWrite" =>
        store \in {last.store, bgUpdateReminderStatus(last.store, last.id, "completed")}

\* a handler of the dashboard that changes reminders has acted: a create, an
\* edit, a dismiss, a delete, or an undo that found a record remembered
DashboardActed ==
    \/ last.op \in {"add", "edit", "dismiss", "delete"}
    \/ (last.op = "undo" /\ last.id # <<>>)

\* C24: after every create, edit, dismiss, delete or undo of the dashboard,
\* whether it succeeded or failed, the in-memory list has been reloaded: when
\* the handler has finished the list equals the stored collection.
C24_ListReloaded ==
    DashboardActed => reminders = store

\* the name 'reminder-' + id + '-' + t
TriggerName(id, t) == <<"r", "e", "m", "i", "n", "d", "e", "r", "-">> \o id \o <<"-">> \o NumToStr(t)

\* C25: cancelReminderById(id, t) deregisters the trigger named
\* 'reminder-' + id + '-' + t and nothing else: a trigger of the same id for
\* another time and the triggers of other ids stay; it changes nothing when
\* no such trigger is registered or when id or t is missing.
C25_CancelExactlyOne ==
    probe.phase = "cancelled" =>
        /\ probe.out.alarms \subseteq probe.as
        /\ \A a \in probe.as :
              a \notin probe.out.alarms
              <=> (probe.id # <<>> /\ probe.t # 0 /\ a.name = TriggerName(probe.id, probe.t))

C25_Witness ==
    /\ probe.phase = "cancelled"
    /\ \E a \in probe.as : a.name = TriggerName(probe.id, probe.t)
    /\ \E a \in probe.out.alarms : \E dt \in 1..MaxMinute :
          a.name = TriggerName(probe.id, SelectedTime(dt))
    /\ \E a \in probe.out.alarms : a.name = TriggerName(<<"b">>, SelectedTime(1))
    /\ probe.id = <<"a">>

\* C26: scheduleReminder throws and registers nothing when the id or the
\* scheduledTime is missing or the scheduledTime is not after the current
\* time; otherwise it registers one trigger named
\* 'reminder-' + id + '-' + scheduledTime for that time, in the place of a
\* trigger already registered under the name, and leaves the others.
C26_ScheduleOrThrow ==
    probe.phase = "scheduled" =>
        IF probe.id = <<>> \/ probe.t = 0 \/ probe.t <= now
        THEN ~probe.out.ok /\ probe.out.alarms = probe.as
        ELSE /\ probe.out.ok
             /\ {a \in probe.out.alarms : a.name = TriggerName(probe.id, probe.t)}
                   = {[name |-> TriggerName(probe.id, probe.t), when |-> probe.t]}
             /\ {a \in probe.out.alarms : a.name # TriggerName(probe.id, probe.t)}
                   = {a \in probe.as : a.name # TriggerName(probe.id, probe.t)}

C26_Witness ==
    /\ probe.phase = "scheduled"
    /\ probe.out.ok
    /\ \E a \in probe.as : a.name = TriggerName(probe.id, probe.t)
    /\ Cardinality(probe.out.alarms) = Cardinality(probe.as)
    /\ Cardinality(probe.as) > 1

\* the segment of key after its last hyphen, the whole key when it has none
LastSegment(key) == SubSeq(key, LastIndexOf(key, "-") + 2, Len(key))

\* a non-empty string of digits that is not zero
IsPositiveInteger(seg) ==
    /\ seg # <<>>
    /\ \A k \in 1..Len(seg) : IsDigit(seg[k])
    /\ \E k \in 1..Len(seg) : seg[k] # "0"

\* what lies between the prefix 'reminder-' and the last hyphen of key
IdPart(key) == SubSeq(key, Len(ReminderPrefix) + 1, LastIndexOf(key, "-"))

\* C27: parseAlarmName returns invalid (null) for every key that does not
\* start with 'reminder-', whose last hyphen-delimited segment is not a
\* positive integer, or whose id part between the prefix 'reminder-' and the
\* last hyphen is empty after trimming, as in 'reminder--5'.
C27_InvalidKeysRejected ==
    (/\ probe.phase = "parsed"
     /\ \/ ~StartsWith(probe.name, <<"r", "e", "m", "i", "n", "d", "e", "r", "-">>)
        \/ ~IsPositiveInteger(LastSegment(probe.name))
        \/ Trim(IdPart(probe.name)) = <<>>)
    => ~probe.result.valid

\* C28: when the store holds a record whose id is the id encoded in the
\* fired trigger's name, the handler selects that record, by its id, even
\* when another stored record has a scheduledTime within 1000 ms of the
\* encoded time.
C28_ExactIdFirst ==
    last.op = "fire" =>
        \A i \in 1..Len(last.store) :
            (\E dt \in 1..MaxMinute :
                last.name = TriggerName(last.store[i].id, SelectedTime(dt)))
            => last.found = FindIndexById(last.store, last.store[i].id)

\* C29: a fired trigger whose name does not start with 'reminder-', whose
\* name fails to parse (no positive integer after its last hyphen, or no id
\* between the prefix and that hyphen), or that fires while the stored
\* collection is empty causes no notification and leaves the stored
\* collection and the other registered triggers unchanged.
C29_BadTriggerIsNoOp ==
    (/\ last.op = "fire"
     /\ \/ ~StartsWith(last.name, <<"r", "e", "m", "i", "n", "d", "e", "r", "-">>)
        \/ ~IsPositiveInteger(LastSegment(last.name))
        \/ Trim(IdPart(last.name)) = <<>>
        \/ last.store = <<>>)
    => /\ ~last.ok
       /\ last.attempts = <<>>
       /\ firing.stage = "idle"
       /\ store = last.store
       /\ alarms = {Bystander}

\* C30: in every state reached by creates, edits, dismisses, undos, deletes
\* and trigger fires, every registered trigger encodes the id of a record
\* that is stored with status active: none stays registered, or is newly
\* registered, for a record that was deleted, dismissed or completed.
C30_TriggersOfActiveOnly ==
    \A a \in alarms :
        \E i \in 1..Len(store) :
            store[i].status = "active" /\ EncodesId(a, store[i].id)

\* C31: after any create, edit, dismiss, undo or delete has finished, with
\* success or with an error, every stored record that is active and whose
\* scheduledTime is still ahead has a trigger registered under its derived
\* name.
C31_ActiveFutureHasTrigger ==
    last.op \in {"popupCreate", "add", "edit", "dismiss", "undo", "delete"} =>
        \A i \in 1..Len(store) :
            (store[i].status = "active" /\ store[i].scheduledTime > now)
            => HasAlarmNamed(alarms, TriggerName(store[i].id, store[i].scheduledTime))

\* C32: a failed edit, saveReminder or scheduleReminder throwing, leaves the
\* edited record as it was before the edit: its stored text and
\* scheduledTime, the dashboard's in-memory copy of it, and the trigger
\* registered for its original scheduledTime are unchanged.
C32_FailedEditChangesNothing ==
    (last.op = "edit" /\ ~last.ok) =>
        /\ \A i \in 1..Len(last.store) :
              last.store[i].id = last.id
              => /\ i <= Len(store)
                 /\ store[i].text = last.store[i].text
                 /\ store[i].scheduledTime = last.store[i].scheduledTime
        /\ FindIndexById(reminders, last.id) > 0
        /\ reminders[FindIndexById(reminders, last.id)] = last.copy[1]
        /\ \A a \in last.alarms :
              a.name = TriggerName(last.id, last.copy[1].scheduledTime) => a \in alarms

\* how many times id occurs in the sequence of displayed record ids
TimesShown(id) == Cardinality({n \in 1..Len(probe.shown) : probe.shown[n] = id})

\* C33: under every interleaving of onAlarm listener runs, two alarms due at
\* the same time included, no stored record is displayed more than once.
C33_ShownAtMostOnce ==
    \A i \in 1..Len(store) : TimesShown(store[i].id) <= 1

\* a record is remembered for undo by an earlier dismiss, and the timer set
\* for it, if one is set, runs out within the modelled clock
RememberedAwhile ==
    /\ lastDismissedReminder # <<>>
    /\ last.op # "dismiss"
    /\ undoTimeout # NoTimer => undoTimeout <= MaxMinute * MsPerMinute

\* C34: a record remembered for undo is eventually cleared (by the 5-second
\* timer or by an undo) or replaced by a later dismiss, whether or not the
\* dismiss that remembered it succeeded.
C34_RememberedIsCleared ==
    RememberedAwhile ~> (lastDismissedReminder = <<>> \/ last.op = "dismiss")

\* C35: when the read of the store fails or yields a non-array during
\* saveReminder, deleteReminder or a status update, every record stored before
\* the operation, the one deleted apart, is still stored after it.
C35_FailedReadLosesNothing ==
    (/\ probe.phase = "written"
     /\ (~probe.value.array \/ \E n \in 1..Len(probe.reads) : probe.reads[n] = "rejects"))
    => \A i \in 1..Len(probe.value.items) :
          (probe.op = "delete" /\ probe.value.items[i].id = probe.id)
          \/ \E j \in 1..Len(probe.written.items) :
                probe.written.items[j].id = probe.value.items[i].id

\* the record r of the store before the step is stored unchanged, but for the
\* fields the operation is there to change
FrameOf(op, r, after) ==
    /\ after.id = r.id
    /\ after.createdAt = r.createdAt
    /\ IF op = "edit"
       THEN after.status = r.status
       ELSE /\ after.text = r.text
            /\ after.scheduledTime = r.scheduledTime
            /\ after.alarmName = r.alarmName

\* C36: edit, dismiss, undo and the status write of a fired alarm keep the id
\* and createdAt of the record they are about, change of it only text,
\* scheduledTime and alarmName (edit) or status (dismiss, undo, fire), and
\* leave every stored record of another id as it was.
C36_FrameKept ==
    last.op \in {"edit", "dismiss", "undo", "fireWrite"} =>
        \A i \in 1..Len(last.store) :
            /\ i <= Len(store)
            /\ IF last.store[i].id = last.id
               THEN FrameOf(last.op, last.store[i], store[i])
               ELSE store[i] = last.store[i]

====
